---- MODULE Spec2Model ----
(***************************************************************************)
(* The canvas scripts of videoTracker (scripts/*.py) as a state machine.   *)
(*                                                                         *)
(* The state is the canvas document stored at CANVAS_PATH, the header and  *)
(* source tree the scripts scan, and a record of the last script run.      *)
(* Every script run (load, mutate, write) is one action.  SpecScan and     *)
(* SpecTitle call the line scanners and format_node_text on arguments of   *)
(* their own, one step of the function per action.                         *)
(*                                                                         *)
(* A node text is a sequence of tokens.  A token is one of the punctuation *)
(* characters of Punct, a maximal run of word characters (a Python \w+),   *)
(* or a chunk: a run of characters that holds a non-word character, none   *)
(* of '#', '*', '.', does not start or end with whitespace and does not    *)
(* hold the literal '(abstract)'.  The regular expressions and the         *)
(* str.replace / str.strip calls of the scripts are computed on the tokens *)
(* and not assumed.  The texts of the model never hold a '.' followed by a *)
(* word that merely starts with 'h' or 'cpp' (such as '.hpp').             *)
(***************************************************************************)
EXTENDS Integers, Sequences, FiniteSets, TLC

\* ------------------------------------------------------------------ tokens

NL == "\n"
WS == {" ", NL}
Punct == {" ", NL, "#", ".", "/", "*", "(", ")", "-"}

\* the chunks of the model: the fixed phrases of the scripts' texts
DescClock == "Central timing system for audio/video synchronization"
DescOfApp == "Main application class inheriting from ofBaseApp"
DescOfBaseApp == "Base class from openFrameworks framework (external dependency)"
DescShell == "Base class for different UI interaction modes"
DescEditorShell == "Wraps existing ImGui-based editor interface with tiled windows"
DescCommandShell == "Custom-rendered terminal interface with REPL (Hydra/Strudel style)"
DescCodeShell == "Live-coding shell with code editor and REPL (Strudel/Tidal/Hydra style)"
DescCLIShell == "Batch CLI mode for non-interactive command execution"
METHOD_OPEN == "- <backquote>"
METHOD_CLOSE == "()<backquote>"

Chunks ==
  {DescClock, DescOfApp, DescOfBaseApp, DescShell, DescEditorShell, DescCommandShell,
   DescCodeShell, DescCLIShell, METHOD_OPEN, METHOD_CLOSE,
   "Application Layer", "Core Systems", "Key Methods:", "(Class definition found)",
   "(No public methods found)", "Editor shell"}

\* Python \w+ : a token that is neither punctuation nor a chunk
IsWord(t) == t \notin Punct \cup Chunks

\* str.strip(): leading and trailing whitespace removed
RECURSIVE lstrip(_)
lstrip(s) ==
  IF s # <<>> /\ Head(s) \in WS THEN lstrip(Tail(s)) ELSE s

RECURSIVE rstrip(_)
rstrip(s) ==
  IF s # <<>> /\ s[Len(s)] \in WS THEN rstrip(SubSeq(s, 1, Len(s) - 1)) ELSE s

strip(s) == rstrip(lstrip(s))

StartsWith(s, p) == Len(s) >= Len(p) /\ SubSeq(s, 1, Len(p)) = p

\* str.replace(old, ""): every non-overlapping occurrence removed, left to right
RECURSIVE replace(_, _)
replace(s, old) ==
  IF s = <<>> THEN <<>>
  ELSE IF StartsWith(s, old) THEN replace(SubSeq(s, Len(old) + 1, Len(s)), old)
  ELSE <<Head(s)>> \o replace(Tail(s), old)

\* text.split('\n')[0]
RECURSIVE FirstLine(_)
FirstLine(s) ==
  IF s = <<>> \/ Head(s) = NL THEN <<>> ELSE <<Head(s)>> \o FirstLine(Tail(s))

\* "\n".join(lines)
RECURSIVE JoinLines(_)
JoinLines(lines) ==
  IF lines = <<>> THEN <<>>
  ELSE IF Len(lines) = 1 THEN lines[1]
  ELSE lines[1] \o <<NL>> \o JoinLines(Tail(lines))

\* the literals the scripts remove from a text
ABSTRACT_SUFFIX == <<" ", "(", "abstract", ")">>
DOT_H == <<".", "h">>
DOT_CPP_H == <<".", "cpp", "/", "h">>
DOT_CPP == <<".", "cpp">>

\* the first position at or after i that holds no whitespace (regex \s*)
RECURSIVE SkipWS(_, _)
SkipWS(s, i) ==
  IF i <= Len(s) /\ s[i] \in WS THEN SkipWS(s, i + 1) ELSE i

\* the smallest element of a non-empty set of integers
MinOf(S) == CHOOSE m \in S : \A n \in S : m <= n

\* the elements of seq that satisfy Keep, in order
RECURSIVE SelectIdx(_, _, _)
SelectIdx(seq, keep, i) ==
  IF i > Len(seq) THEN <<>>
  ELSE (IF i \in keep THEN <<seq[i]>> ELSE <<>>) \o SelectIdx(seq, keep, i + 1)

\* seq[:n]
Take(seq, n) == SubSeq(seq, 1, IF Len(seq) < n THEN Len(seq) ELSE n)

Range(seq) == {seq[i] : i \in 1..Len(seq)}

\* all orders in which a finite set can be iterated
RECURSIVE Orders(_)
Orders(S) ==
  IF S = {} THEN {<<>>}
  ELSE UNION {{<<e>> \o r : r \in Orders(S \ {e})} : e \in S}

\* ------------------------------------------------- the classes of the model

\* The model keeps three of the classes of ALL_CLASSES / UML_LAYERS: an abstract
\* class and a concrete class of one layer, and a class of another layer.
ALL_CLASSES == {"ofBaseApp", "ofApp", "Clock"}

\* is_abstract: name in ["Module", "ModuleGUI", "BaseCell", "ofBaseApp"]
IsAbstract(name) == name \in {"Module", "ModuleGUI", "BaseCell", "ofBaseApp"}

\* the modelled names in the order of Python's string comparison
NameOrder == <<"Clock", "ofApp", "ofBaseApp">>
NameRank(name) == CHOOSE i \in 1..Len(NameOrder) : NameOrder[i] = name

INHERITANCE == [c \in {"ofApp"} |-> "ofBaseApp"]

\* ------------------------------------------------------ the canvas document

\* disk      the canvas document stored at CANVAS_PATH
\* fs        the header and source tree under SRC_DIR
\* last      what the last script run did
\* repeated  how many uuid4 draws so far returned a value drawn before
\* runs      how many script runs there have been
\* call      a call of one of the scripts' pure functions on arguments of its
\*           own: the arguments, how far the call has got, and its result
VARIABLES disk, fs, last, repeated, runs, call

vars == <<disk, fs, last, repeated, runs, call>>

\* no function is being called on its own
NoCall == [fn |-> "none"]

MetaAbsent == "absent"
DefaultMeta == "version 1.0-1.0, frontmatter {}"

NoColor == "absent"
NoStyle == "absent"
EmptyStyle == "{}"

Node(id, text, x, y, width, height, color, style) ==
  [id |-> id, type |-> "text", text |-> text, x |-> x, y |-> y,
   width |-> width, height |-> height, color |-> color, style |-> style]

\* node ids: "header-<layer>", "class-<8 hex digits>", "<16 hex digits>"
HeaderId(n) == [kind |-> "header", n |-> n]
ClassId(n) == [kind |-> "class", n |-> n]
HexId(n) == [kind |-> "hex16", n |-> n]

\* the bounds of the model: a behaviour has at most MaxRuns script runs, and at
\* most MaxRepeated of its uuid4 draws return a value that was drawn before
MaxRuns == 2
MaxRepeated == 1

\* The outcomes of k successive uuid4() draws, up to the naming of the values:
\* each draw is a value not seen before or, while budget allows, repeats a
\* value in use (in the document or drawn earlier in the run).  reps counts
\* the repeats.
FreshOf(used) == MinOf({n \in 0..Cardinality(used) : n \notin used})

RECURSIVE IdSeqs(_, _, _)
IdSeqs(used, k, budget) ==
  IF k = 0 THEN {[ids |-> <<>>, reps |-> 0]}
  ELSE LET fresh == FreshOf(used)
       IN {[ids |-> <<fresh>> \o r.ids, reps |-> r.reps] :
             r \in IdSeqs(used \cup {fresh}, k - 1, budget)}
          \cup (IF budget = 0 THEN {}
                ELSE UNION {{[ids |-> <<n>> \o r.ids, reps |-> r.reps + 1] :
                               r \in IdSeqs(used, k - 1, budget - 1)} : n \in used})

UsedIds(nodes, kind) == {nodes[i].id.n : i \in {j \in 1..Len(nodes) : nodes[j].id.kind = kind}}

\* json.load of the stored file: it raises when the file is missing or is not JSON
LoadCanvas(d) == [failed |-> ~d.ok, mem |-> d]

\* json.dump of canvas_data to the stored file
WriteCanvas(mem) == mem

\* a run that opened the file for writing before it raised
Aborted_file_opened(script, d, loaded) ==
  [script |-> script, failed |-> TRUE, loaded |-> loaded, writes |-> 1, before |-> d,
   out |-> [d EXCEPT !.ok = FALSE], unsaved |-> FALSE, added |-> <<>>, updated |-> {}]

\* a run that raised before its write: the stored file is as it was
Aborted(script, d, loaded) ==
  [script |-> script, failed |-> TRUE, loaded |-> loaded, writes |-> 0, before |-> d,
   out |-> d, unsaved |-> FALSE, added |-> <<>>, updated |-> {}]

\* a run that reached its end: d is the document it loaded, mem is canvas_data
\* when the script ends, which the single json.dump has written
Finished(script, d, mem, added, updated) ==
  [script |-> script, failed |-> FALSE, loaded |-> TRUE, writes |-> 1, before |-> d,
   out |-> WriteCanvas(mem), unsaved |-> WriteCanvas(mem) # mem, added |-> added,
   updated |-> updated]

\* ------------------------------------------------------ generate_uml_canvas

CLASS_NODE_WIDTH == 280
CLASS_NODE_HEIGHT == 100
ABSTRACT_NODE_WIDTH == 300
ABSTRACT_NODE_HEIGHT == 120
NODE_SPACING_Y == 150
LAYER_HEADER_HEIGHT == 120
HEADER_WIDTH == 300
HEADER_HEIGHT == 80

\* UML_LAYERS, in dictionary order, for the layers of the modelled classes
UML_LAYERS ==
  << [name |-> "application", classes |-> {"ofApp", "ofBaseApp"}, x |-> 0, y |-> 0,
      label |-> <<"Application Layer">>],
     [name |-> "core_systems", classes |-> {"Clock"}, x |-> 800, y |-> 0,
      label |-> <<"Core Systems">>] >>

\* UMLClass._find_layer
find_layer(name) ==
  LET hits == {i \in 1..Len(UML_LAYERS) : name \in UML_LAYERS[i].classes}
  IN IF hits = {} THEN 0 ELSE MinOf(hits)

\* UMLClass.get_display_text
get_display_text(name) ==
  IF IsAbstract(name) THEN <<"*", name, "*", NL, "(", "abstract", ")">> ELSE <<name>>

\* a sort key without the abstract flag: c.name alone
SortKeyLess_by_name(a, b) == NameRank(a) < NameRank(b)

\* the sort key of layout_classes: (not c.is_abstract, c.name)
SortKeyLess(a, b) ==
  \/ IsAbstract(a) /\ ~IsAbstract(b)
  \/ IsAbstract(a) = IsAbstract(b) /\ NameRank(a) < NameRank(b)

\* by_layer[layer]: the classes of the layer in the iteration order of the
\* class dictionary
by_layer(order, layer) ==
  SelectIdx(order, {i \in 1..Len(order) : find_layer(order[i]) = layer}, 1)

\* list.sort(key=...): a stable sort, here by insertion
RECURSIVE insert_by_key(_, _)
insert_by_key(sorted, c) ==
  IF sorted = <<>> THEN <<c>>
  ELSE IF SortKeyLess(c, Head(sorted)) THEN <<c>> \o sorted
  ELSE <<Head(sorted)>> \o insert_by_key(Tail(sorted), c)

RECURSIVE sort_by_key(_)
sort_by_key(classes) ==
  IF classes = <<>> THEN <<>>
  ELSE insert_by_key(sort_by_key(SubSeq(classes, 1, Len(classes) - 1)),
                     classes[Len(classes)])

\* layout_classes: the position of class name, for a class dictionary iterated
\* in the given order; i is the index enumerate gives it in its sorted layer
layout_classes(order, name) ==
  LET layer == find_layer(name)
      layer_classes == sort_by_key(by_layer(order, layer))
      i == (CHOOSE k \in 1..Len(layer_classes) : layer_classes[k] = name) - 1
  IN [x |-> UML_LAYERS[layer].x,
      y |-> UML_LAYERS[layer].y + LAYER_HEADER_HEIGHT + i * NODE_SPACING_Y]

\* create_canvas_json: the layer headers, then the class nodes in dictionary order
layer_header(i) ==
  Node(HeaderId(i), <<"*", "*">> \o UML_LAYERS[i].label \o <<"*", "*">>,
       UML_LAYERS[i].x, UML_LAYERS[i].y, HEADER_WIDTH, HEADER_HEIGHT, "1", NoStyle)

class_node(order, name, idn) ==
  LET pos == layout_classes(order, name)
  IN Node(ClassId(idn), get_display_text(name), pos.x, pos.y,
          IF IsAbstract(name) THEN ABSTRACT_NODE_WIDTH ELSE CLASS_NODE_WIDTH,
          IF IsAbstract(name) THEN ABSTRACT_NODE_HEIGHT ELSE CLASS_NODE_HEIGHT,
          "1", NoStyle)

\* main of generate_uml_canvas: order is the iteration order of the set of class
\* names, ids the uuid4 draws of the UMLClass objects
create_canvas_json(order, ids) ==
  [ok |-> TRUE, hasNodes |-> TRUE,
   nodes |-> [i \in 1..Len(UML_LAYERS) |-> layer_header(i)]
             \o [i \in 1..Len(order) |-> class_node(order, order[i], ids[i])],
   edges |-> <<>>,
   meta |-> MetaAbsent]

\* the documents generate_uml_canvas can write, each with its repeated draws
GeneratedCanvases ==
  {[doc |-> create_canvas_json(order, r.ids), reps |-> r.reps] :
     order \in Orders(ALL_CLASSES),
     r \in IdSeqs({}, Cardinality(ALL_CLASSES), MaxRepeated)}

\* --------------------------------------------------- update_existing_canvas

LAYER_POSITIONS ==
  [application |-> [x |-> -900, y |-> -700],
   core |-> [x |-> -120, y |-> -1000],
   module_base |-> [x |-> 980, y |-> -900],
   modules |-> [x |-> 1080, y |-> -920],
   gui_base |-> [x |-> 2000, y |-> -570],
   gui_classes |-> [x |-> 2100, y |-> -600],
   cell_system |-> [x |-> 3000, y |-> -400],
   data_structures |-> [x |-> 3500, y |-> -400],
   utilities |-> [x |-> 4000, y |-> -400]]

\* CLASS_TO_LAYER.get(key, ""), key a cleaned node text
CLASS_TO_LAYER(key) ==
  IF key \in {<<"ofBaseApp">>, <<"ofApp">>} THEN "application"
  ELSE IF key = <<"Clock">> THEN "core"
  ELSE ""

\* the key under which get_existing_nodes files a text node
existing_key(text) ==
  strip(replace(replace(replace(replace(strip(text),
        ABSTRACT_SUFFIX), DOT_H), DOT_CPP_H), DOT_CPP))

\* a Python dict: its items in insertion order
DictKeys(dict) == {dict[i].key : i \in 1..Len(dict)}

\* dict[key] = value
DictPut(dict, key, value) ==
  IF key \in DictKeys(dict)
  THEN [i \in 1..Len(dict) |->
          IF dict[i].key = key THEN [key |-> key, value |-> value] ELSE dict[i]]
  ELSE Append(dict, [key |-> key, value |-> value])

\* get_existing_nodes: cleaned text -> node, for the text nodes
RECURSIVE existing_from(_, _, _)
existing_from(nodes, i, dict) ==
  IF i > Len(nodes) THEN dict
  ELSE existing_from(nodes, i + 1,
                     IF nodes[i].type = "text"
                     THEN DictPut(dict, existing_key(nodes[i].text), nodes[i])
                     ELSE dict)

get_existing_nodes(mem) == existing_from(mem.nodes, 1, <<>>)

\* the text cleaning of create_missing_node's existing_in_layer
layer_key(text) ==
  strip(replace(replace(replace(text, ABSTRACT_SUFFIX), DOT_H), DOT_CPP_H))

\* create_missing_node's count: the nodes of existing_nodes that are in the layer
existing_in_layer(existing, layer) ==
  Cardinality({i \in 1..Len(existing) :
                 CLASS_TO_LAYER(layer_key(existing[i].value.text)) = layer})

\* create_missing_node's position for slot count of a layer
missing_node_position(layer, count) ==
  LET base == LAYER_POSITIONS[layer]
  IN CASE layer = "core" -> [x |-> base.x + (count % 2) * 340, y |-> base.y + (count \div 2) * 80]
       [] layer \in {"modules", "gui_classes"} ->
            [x |-> base.x + (count % 2) * 280, y |-> base.y + (count \div 2) * 80]
       [] layer = "application" -> [x |-> base.x, y |-> base.y - count * 100]
       [] layer \in {"module_base", "gui_base"} -> [x |-> base.x, y |-> base.y]
       [] layer = "cell_system" -> [x |-> base.x + count * 300, y |-> base.y]
       [] OTHER -> [x |-> base.x, y |-> base.y + count * 100]

create_missing_node(class_name, layer, existing, idn) ==
  LET pos == missing_node_position(layer, existing_in_layer(existing, layer))
      text == IF IsAbstract(class_name)
              THEN <<"*", class_name, "*", NL, "(", "abstract", ")">>
              ELSE <<class_name>>
  IN Node(HexId(idn), text, pos.x, pos.y,
          IF IsAbstract(class_name) THEN 300 ELSE 260,
          IF IsAbstract(class_name) THEN 200 ELSE 60,
          NoColor, EmptyStyle)

\* the loop of main over missing_classes, visited in the given order
RECURSIVE add_missing_nodes(_, _, _)
add_missing_nodes(order, ids, existing) ==
  IF order = <<>> THEN <<>>
  ELSE LET class_name == Head(order)
           new_node == create_missing_node(class_name, CLASS_TO_LAYER(<<class_name>>),
                                           existing, Head(ids))
       IN <<new_node>> \o add_missing_nodes(Tail(order), Tail(ids),
                                            DictPut(existing, <<class_name>>, new_node))

\* missing_classes = ALL_CLASSES - existing_class_names
missing_classes(mem) ==
  LET existing_class_names == DictKeys(get_existing_nodes(mem))
  IN {c \in ALL_CLASSES : <<c>> \notin existing_class_names}

\* the new nodes put in front of the loaded ones
extend_nodes_in_front(nodes, new_nodes) == new_nodes \o nodes

\* canvas_data["nodes"].extend(new_nodes)
extend_nodes(nodes, new_nodes) == nodes \o new_nodes

\* canvas_data["edges"] = []
existing_edges_written(edges) == <<>>

\* the default metadata written over whatever was loaded
metadata_overwritten(meta) == DefaultMeta

\* the metadata main leaves in canvas_data
preserve_metadata(meta) == IF meta = MetaAbsent THEN DefaultMeta ELSE meta

\* main of update_existing_canvas
update_existing_canvas(d, order, ids) ==
  LET ld == LoadCanvas(d)
  IN IF ld.failed THEN Aborted("update_existing_canvas", d, FALSE)
     ELSE LET new_nodes == add_missing_nodes(order, ids, get_existing_nodes(ld.mem))
          IN IF ~ld.mem.hasNodes
             THEN Aborted("update_existing_canvas", d, TRUE)
             ELSE Finished("update_existing_canvas", d,
                    [ld.mem EXCEPT !.nodes = extend_nodes(@, new_nodes),
                                   !.edges = existing_edges_written(@),
                                   !.meta = preserve_metadata(@)],
                    new_nodes, {})

\* ------------------------------------------- the header and source tree

\* A header file is a sequence of lines; a line is what the scanners see in it:
\*   kind  "class"   a line matching \bclass\s+\w+ ; name is the class, open > 0
\*                   when the line holds '{', bare when '{' follows the name
\*                   directly (no base-class clause)
\*         "public" / "private"   an access-specifier line
\*         "decl"    a method declaration name(...) ; typed when it starts with
\*                   bool|void|int|float|std::x, ovr when 'override' follows ')'
\*         "other"   anything else
\*   open, close     the number of '{' and of '}' in the line
Line(kind, name, open, close, flags) ==
  [kind |-> kind, name |-> name, open |-> open, close |-> close,
   bare |-> "bare" \in flags, typed |-> "typed" \in flags, ovr |-> "ovr" \in flags]

\* The files of the tree: doc is the first non-blank line of the last /** */
\* block before the class, docNear whether that block lies within 500
\* characters of the class.
HeaderFile(name) ==
  CASE name = "Clock" ->
         [doc |-> <<"Clock", " ", "-", " ", "Master", " ", "*", "timing", "*">>, docNear |-> TRUE,
          lines |-> << Line("class", "Engine", 0, 0, {}),
                       Line("class", "Clock", 1, 0, {"bare"}),
                       Line("decl", "tick", 0, 0, {"typed"}),
                       Line("public", "", 0, 0, {}),
                       Line("decl", "Clock", 0, 0, {}),
                       Line("decl", "setup", 0, 0, {"typed"}),
                       Line("decl", "getBPM", 1, 1, {"typed"}),
                       Line("decl", "setBPM", 0, 0, {"typed"}),
                       Line("decl", "subscribe", 0, 0, {"typed"}),
                       Line("private", "", 0, 0, {}),
                       Line("decl", "advance", 0, 0, {"typed"}),
                       Line("other", "", 0, 1, {}),
                       Line("decl", "freeFunction", 0, 0, {"typed"}) >>]
    [] name = "ofApp" ->
         [doc |-> <<>>, docNear |-> FALSE,
          lines |-> << Line("class", "ofApp", 1, 0, {}),
                       Line("public", "", 0, 0, {}),
                       Line("decl", "setup", 0, 0, {"typed", "ovr"}),
                       Line("decl", "keyPressed", 0, 0, {"typed", "ovr"}),
                       Line("decl", "getEngine", 0, 0, {}),
                       Line("other", "", 0, 1, {}) >>]
    [] OTHER ->
         [doc |-> <<"Editor shell">>, docNear |-> FALSE,
          lines |-> << Line("class", "EditorShell", 1, 0, {}),
                       Line("public", "", 0, 0, {}),
                       Line("decl", "EditorShell", 0, 0, {}),
                       Line("decl", "draw", 0, 0, {"typed", "ovr"}),
                       Line("decl", "setDrawGUICallback", 0, 0, {"typed"}),
                       Line("decl", "isReady", 0, 0, {"typed"}),
                       Line("other", "", 0, 1, {}) >>]

\* the trees of the model: hdr and cpp are the class names that have a header
\* and a .cpp file, unreadable the headers whose read_text raises
FSChoices ==
  { [hdr |-> {}, cpp |-> {}, unreadable |-> {}],
    [hdr |-> {"Clock", "ofApp", "EditorShell"}, cpp |-> {"Clock", "EditorShell"},
     unreadable |-> {}],
    [hdr |-> {"Clock"}, cpp |-> {"Clock", "ofBaseApp"}, unreadable |-> {"Clock"}] }

\* find_class_file(class_name) is not None
find_class_file(tree, class_name) == Len(class_name) = 1 /\ class_name[1] \in tree.hdr

\* find_cpp_file(class_name) is not None
find_cpp_file(tree, class_name) == Len(class_name) = 1 /\ class_name[1] \in tree.cpp

\* header_path.exists() and read_text() does not raise
Readable(tree, name) == name \in tree.hdr /\ name \notin tree.unreadable

EXCLUDE_METHODS ==
  {"getType", "getName", "getInstanceName", "setInstanceName", "toJson", "fromJson",
   "serialize", "deserialize", "setup", "update", "draw", "audioOut", "videoOut",
   "getWidth", "getHeight", "setWidth", "setHeight", "getX", "getY", "setX", "setY",
   "getPosition", "setPosition", "getColor", "setColor", "isVisible", "setVisible",
   "getParent", "setParent", "getChildren", "addChild", "removeChild"}

\* the keywords a lower-cased method name of the model contains
KeywordsIn(m) ==
  CASE m = "getBPM" -> {"get"}
    [] m = "setBPM" -> {"set"}
    [] m = "subscribe" -> {"subscribe"}
    [] m = "getEngine" -> {"get"}
    [] m = "keyPressed" -> {}
    [] m = "setup" -> {"setup", "set"}
    [] m = "draw" -> {"draw"}
    [] m = "setDrawGUICallback" -> {"set", "draw"}
    [] m = "freeFunction" -> {"on"}
    [] OTHER -> {}

append_new(methods, m) == IF m \in Range(methods) THEN methods ELSE Append(methods, m)

\* the class named by the nearest line at or above i that matches \bclass\s+(\w+)
nearest_class(lines, i) ==
  LET above == {j \in 1..i : lines[j].kind = "class"}
  IN IF above = {} THEN "" ELSE lines[CHOOSE j \in above : \A k \in above : k <= j].name

\* One line of the line-based brace-depth scanner (extract_public_methods of
\* add_shell_nodes, extract_all_public_methods of update_node_titles).
\* filtered: the update_node_titles copy, which skips EXCLUDE_METHODS and
\* constructors and whose pattern does not allow 'override'.
scan_line(lines, i, st, filtered) ==
  LET line == lines[i]
      depth == st.brace_depth + line.open - line.close
  IN IF line.kind = "class" /\ line.open > 0
     THEN [st EXCEPT !.in_class = TRUE, !.in_public_section = FALSE,
                     !.brace_depth = line.open - line.close]
     ELSE IF ~st.in_class THEN st
     ELSE IF depth <= 0 THEN [st EXCEPT !.brace_depth = depth, !.in_class = FALSE]
     ELSE IF line.kind = "public"
          THEN [st EXCEPT !.brace_depth = depth, !.in_public_section = TRUE]
     ELSE IF line.kind = "private"
          THEN [st EXCEPT !.brace_depth = depth, !.in_public_section = FALSE]
     ELSE IF /\ st.in_public_section
             /\ line.kind = "decl"
             /\ (filtered => ~line.ovr)
             /\ (filtered => line.name \notin EXCLUDE_METHODS)
             /\ (filtered => line.name # nearest_class(lines, i))
          THEN [st EXCEPT !.brace_depth = depth, !.methods = append_new(@, line.name)]
     ELSE [st EXCEPT !.brace_depth = depth]

RECURSIVE scan_lines(_, _, _, _)
scan_lines(lines, i, st, filtered) ==
  IF i > Len(lines) THEN st
  ELSE scan_lines(lines, i + 1, scan_line(lines, i, st, filtered), filtered)

ScanStart ==
  [methods |-> <<>>, in_public_section |-> FALSE, in_class |-> FALSE, brace_depth |-> 0]

\* add_shell_nodes.extract_public_methods
extract_public_methods(tree, name) ==
  IF ~Readable(tree, name) THEN <<>>
  ELSE scan_lines(HeaderFile(name).lines, 1, ScanStart, FALSE).methods

\* update_node_titles.extract_all_public_methods
titles_extract_all_public_methods(tree, name) ==
  IF ~Readable(tree, name) THEN <<>>
  ELSE scan_lines(HeaderFile(name).lines, 1, ScanStart, TRUE).methods

\* update_all_nodes.extract_all_public_methods: the first class whose '{'
\* follows its name, its body up to the matching '}', and in it every stretch
\* from a 'public:' to the next 'private:'/'protected:' (or the end of the body)
RECURSIVE body_end(_, _, _)
body_end(lines, i, depth) ==
  IF i > Len(lines) THEN Len(lines)
  ELSE IF depth + lines[i].open - lines[i].close <= 0 THEN i - 1
  ELSE body_end(lines, i + 1, depth + lines[i].open - lines[i].close)

\* the names one public section adds: the typed declarations first (pattern
\* 1), then the remaining ones (pattern 2)
RECURSIVE section_methods(_, _, _, _, _, _)
section_methods(lines, i, to, class_name, methods, typedPass) ==
  IF i > to
  THEN methods
  ELSE LET line == lines[i]
           take == /\ line.kind = "decl"
                   /\ (typedPass => line.typed)
                   /\ line.name \notin EXCLUDE_METHODS
                   /\ line.name # class_name
       IN section_methods(lines, i + 1, to, class_name,
                          IF take THEN append_new(methods, line.name) ELSE methods,
                          typedPass)

RECURSIVE all_sections(_, _, _, _, _)
all_sections(lines, i, to, class_name, methods) ==
  IF i > to THEN methods
  ELSE IF lines[i].kind # "public"
       THEN all_sections(lines, i + 1, to, class_name, methods)
  ELSE LET stops == {j \in (i + 1)..to : lines[j].kind = "private"}
           stop == IF stops = {} THEN to ELSE MinOf(stops) - 1
           typed == section_methods(lines, i + 1, stop, class_name, methods, TRUE)
       IN all_sections(lines, i + 1, to, class_name,
                       section_methods(lines, i + 1, stop, class_name, typed, FALSE))

all_extract_all_public_methods(tree, name) ==
  IF ~Readable(tree, name) THEN <<>>
  ELSE LET lines == HeaderFile(name).lines
           starts == {i \in 1..Len(lines) :
                        lines[i].kind = "class" /\ lines[i].bare /\ lines[i].open > 0}
       IN IF starts = {} THEN <<>>
          ELSE LET c == MinOf(starts)
               IN all_sections(lines, c + 1, body_end(lines, c + 1, 1), lines[c].name, <<>>)

\* get_key_interaction_methods (the same in update_all_nodes and update_node_titles)
get_key_interaction_methods(all_methods) ==
  LET n == Len(all_methods)
      isPriority(m) ==
        KeywordsIn(m) \cap {"connect", "disconnect", "register", "execute", "route",
                            "subscribe", "unsubscribe"} # {}
      isMedium(m) ==
        /\ ~isPriority(m)
        /\ \/ "get" \in KeywordsIn(m)
              /\ KeywordsIn(m) \cap {"module", "manager", "router", "registry", "factory",
                                     "connection", "state"} # {}
           \/ KeywordsIn(m) \cap {"notify", "on", "set"} # {}
           \/ KeywordsIn(m) \cap {"load", "save", "serialize", "deserialize"} # {}
      priority_methods == SelectIdx(all_methods, {i \in 1..n : isPriority(all_methods[i])}, 1)
      medium_priority == SelectIdx(all_methods, {i \in 1..n : isMedium(all_methods[i])}, 1)
      other_methods ==
        SelectIdx(all_methods,
                  {i \in 1..n : ~isPriority(all_methods[i]) /\ ~isMedium(all_methods[i])}, 1)
      r1 == Take(priority_methods, 6)
      r2 == r1 \o Take(medium_priority, 8 - Len(r1))
      r3 == r2 \o Take(other_methods, 8 - Len(r2))
  IN Take(r3, 8)

\* add_shell_nodes.get_key_methods
get_key_methods(all_methods, predefined) ==
  IF all_methods = <<>> THEN Take(predefined, 8)
  ELSE LET n == Len(all_methods)
           isPriority(m) ==
             KeywordsIn(m) \cap {"handle", "execute", "setup", "update", "draw", "set", "get"} # {}
           priority == SelectIdx(all_methods, {i \in 1..n : isPriority(all_methods[i])}, 1)
           other == SelectIdx(all_methods, {i \in 1..n : ~isPriority(all_methods[i])}, 1)
           result == Take(priority, 6)
       IN Take(result \o Take(other, 8 - Len(result)), 8)

\* ------------------------------------------------------------ descriptions

\* update_all_nodes.get_fallback_description, for the names of the model
all_get_fallback_description(class_name) ==
  CASE class_name = <<"Clock">> -> <<DescClock>>
    [] class_name = <<"ofApp">> -> <<DescOfApp>>
    [] class_name = <<"ofBaseApp">> -> <<DescOfBaseApp>>
    [] class_name = <<"Shell">> -> <<DescShell>>
    [] class_name = <<"EditorShell">> -> <<DescEditorShell>>
    [] class_name = <<"CommandShell">> -> <<DescCommandShell>>
    [] class_name = <<"CodeShell">> -> <<DescCodeShell>>
    [] class_name = <<"CLIShell">> -> <<DescCLIShell>>
    [] OTHER -> <<>>

\* update_node_titles.get_fallback_description, for the names of the model
titles_get_fallback_description(class_name) ==
  CASE class_name = <<"Clock">> -> <<DescClock>>
    [] class_name = <<"ofBaseApp">> -> <<DescOfBaseApp>>
    [] OTHER -> <<>>

\* first_line.split(' - ', 1)[1]
RECURSIVE after_dash(_)
after_dash(s) ==
  IF StartsWith(s, <<" ", "-", " ">>) THEN SubSeq(s, 4, Len(s)) ELSE after_dash(Tail(s))

has_dash(s) == \E i \in 1..Len(s) : StartsWith(SubSeq(s, i, Len(s)), <<" ", "-", " ">>)

\* first_line[len(class_name):].strip(' -')
RECURSIVE strip_dashes(_)
strip_dashes(s) ==
  IF s # <<>> /\ Head(s) \in {" ", "-"} THEN strip_dashes(Tail(s))
  ELSE IF s # <<>> /\ s[Len(s)] \in {" ", "-"} THEN strip_dashes(SubSeq(s, 1, Len(s) - 1))
  ELSE s

\* re.sub(r'\*\s*', '', desc)
RECURSIVE drop_asterisks(_)
drop_asterisks(s) ==
  IF s = <<>> THEN <<>>
  ELSE IF Head(s) = "*" THEN drop_asterisks(SubSeq(s, SkipWS(s, 2), Len(s)))
  ELSE <<Head(s)>> \o drop_asterisks(Tail(s))

\* re.sub(r'\s+', ' ', desc)
RECURSIVE squeeze(_)
squeeze(s) ==
  IF s = <<>> THEN <<>>
  ELSE IF Head(s) \in WS THEN <<" ">> \o squeeze(SubSeq(s, SkipWS(s, 1), Len(s)))
  ELSE <<Head(s)>> \o squeeze(Tail(s))

\* extract_class_description; useFar: the update_node_titles copy, which looks
\* for the comment in everything before the class, fallback: the script's table
extract_class_description(tree, name, class_name, useFar, fallback) ==
  IF ~Readable(tree, name) THEN fallback
  ELSE LET file == HeaderFile(name)
           declared == \E i \in 1..Len(file.lines) :
                          file.lines[i].kind = "class" /\ file.lines[i].name = name
           first_line == file.doc
           cut == IF has_dash(first_line) THEN after_dash(first_line)
                  ELSE IF StartsWith(first_line, class_name)
                       THEN strip_dashes(SubSeq(first_line, Len(class_name) + 1, Len(first_line)))
                  ELSE first_line
           desc == strip(squeeze(drop_asterisks(cut)))
       IN IF ~declared \/ first_line = <<>> \/ (~useFar /\ ~file.docNear) \/ desc = <<>>
          THEN fallback
          ELSE desc

\* ------------------------------------------------------------- node texts

title_line(class_name, has_cpp) ==
  <<"#", " ">> \o class_name \o (IF has_cpp THEN DOT_CPP_H ELSE DOT_H)

description_line(description) == <<"*">> \o description \o <<"*">>

method_line(m) == <<METHOD_OPEN, m, METHOD_CLOSE>>

method_lines(methods) == [i \in 1..Len(methods) |-> method_line(methods[i])]

KEY_METHODS_LINE == <<"*", "*", "Key Methods:", "*", "*">>
CLASS_FOUND_NOTE == <<"*", "(Class definition found)", "*">>
NO_METHODS_NOTE == <<"*", "(No public methods found)", "*">>

\* add_shell_nodes.format_node_text
shell_format_node_text(class_name, description, methods, has_cpp) ==
  JoinLines(<<title_line(class_name, has_cpp), <<>>>>
            \o (IF description # <<>> THEN <<description_line(description), <<>>>> ELSE <<>>)
            \o (IF methods # <<>> THEN <<KEY_METHODS_LINE>> \o method_lines(methods) ELSE <<>>))

\* update_all_nodes.format_node_text with the '**Key Methods:**' title of the
\* other scripts
all_format_node_text_key_methods(class_name, methods, has_cpp, description) ==
  LET desc == IF description = <<>> THEN all_get_fallback_description(class_name)
              ELSE description
  IN JoinLines(<<title_line(class_name, has_cpp), <<>>>>
               \o (IF desc # <<>> THEN <<description_line(desc)>> ELSE <<>>)
               \o << <<>> >>
               \o (IF methods # <<>> THEN <<KEY_METHODS_LINE>> ELSE <<>>)
               \o method_lines(methods))

\* update_all_nodes.format_node_text
all_format_node_text(class_name, methods, has_cpp, description) ==
  LET desc == IF description = <<>> THEN all_get_fallback_description(class_name)
              ELSE description
  IN JoinLines(<<title_line(class_name, has_cpp), <<>>>>
               \o (IF desc # <<>> THEN <<description_line(desc)>> ELSE <<>>)
               \o << <<>> >>
               \o method_lines(methods))

\* update_node_titles.format_node_text
titles_format_node_text(class_name, methods, has_cpp, description) ==
  JoinLines(<<title_line(class_name, has_cpp), <<>>>>
            \o (IF description # <<>> THEN <<description_line(description), <<>>>>
                ELSE IF methods = <<>> THEN <<CLASS_FOUND_NOTE, <<>>>>
                ELSE <<>>)
            \o (IF methods # <<>> THEN <<KEY_METHODS_LINE>> \o method_lines(methods)
                ELSE IF description = <<>> THEN <<NO_METHODS_NOTE>>
                ELSE <<>>))

\* re.search(r'#\s*(\w+)\.(?:cpp/)?h', text) matches at position i
title_match_at(s, i) ==
  /\ s[i] = "#"
  /\ LET j == SkipWS(s, i + 1)
     IN /\ j + 2 <= Len(s)
        /\ IsWord(s[j])
        /\ s[j + 1] = "."
        /\ \/ s[j + 2] = "h"
           \/ j + 4 <= Len(s) /\ s[j + 2] = "cpp" /\ s[j + 3] = "/" /\ s[j + 4] = "h"

\* re.search(r'\*(\w+)\*', text) matches at position i
starred_match_at(s, i) ==
  i + 2 <= Len(s) /\ s[i] = "*" /\ IsWord(s[i + 1]) /\ s[i + 2] = "*"

\* the class-name extraction with the starred pattern tried before the title
\* pattern
extract_class_name_starred_first(raw, dropHash) ==
  LET text == strip(raw)
      titled == {i \in 1..Len(text) : title_match_at(text, i)}
      starred == {i \in 1..Len(text) : starred_match_at(text, i)}
      first_line == strip(FirstLine(text))
      cleaned == replace(replace(replace(replace(first_line,
                   ABSTRACT_SUFFIX), DOT_H), DOT_CPP_H), DOT_CPP)
  IN IF starred # {} THEN <<text[MinOf(starred) + 1]>>
     ELSE IF titled # {} THEN <<text[SkipWS(text, MinOf(titled) + 1)]>>
     ELSE strip(IF dropHash THEN replace(cleaned, <<"#">>) ELSE cleaned)

\* the class name update_all_nodes / update_node_titles read from a node text;
\* dropHash: the update_all_nodes copy, whose third pattern also removes '#'
extract_class_name(raw, dropHash) ==
  LET text == strip(raw)
      titled == {i \in 1..Len(text) : title_match_at(text, i)}
      starred == {i \in 1..Len(text) : starred_match_at(text, i)}
      first_line == strip(FirstLine(text))
      cleaned == replace(replace(replace(replace(first_line,
                   ABSTRACT_SUFFIX), DOT_H), DOT_CPP_H), DOT_CPP)
  IN IF titled # {} THEN <<text[SkipWS(text, MinOf(titled) + 1)]>>
     ELSE IF starred # {} THEN <<text[MinOf(starred) + 1]>>
     ELSE strip(IF dropHash THEN replace(cleaned, <<"#">>) ELSE cleaned)

\* ----------------------------------- update_all_nodes and update_node_titles

IsStruct(class_name) ==
  class_name \in {<<"TriggerEvent">>, <<"Port">>, <<"SampleRef">>, <<"Voice">>}

\* the title of a class without a header taken from has_cpp
all_new_text_cpp_title(tree, class_name) ==
  IF ~find_class_file(tree, class_name)
  THEN all_format_node_text(class_name, <<>>, find_cpp_file(tree, class_name),
                            all_get_fallback_description(class_name))
  ELSE LET name == class_name[1]
           all_methods == IF IsStruct(class_name) THEN <<>>
                          ELSE all_extract_all_public_methods(tree, name)
           described == extract_class_description(tree, name, class_name, FALSE,
                                                  all_get_fallback_description(class_name))
           description == IF described = <<>> THEN all_get_fallback_description(class_name)
                          ELSE described
       IN all_format_node_text(class_name, get_key_interaction_methods(all_methods),
                               find_cpp_file(tree, class_name), description)

\* the text update_all_nodes gives a text node whose class name is class_name
all_new_text(tree, class_name) ==
  IF ~find_class_file(tree, class_name)
  THEN all_format_node_text(class_name, <<>>, FALSE, all_get_fallback_description(class_name))
  ELSE LET name == class_name[1]
           all_methods == IF IsStruct(class_name) THEN <<>>
                          ELSE all_extract_all_public_methods(tree, name)
           described == extract_class_description(tree, name, class_name, FALSE,
                                                  all_get_fallback_description(class_name))
           description == IF described = <<>> THEN all_get_fallback_description(class_name)
                          ELSE described
       IN all_format_node_text(class_name, get_key_interaction_methods(all_methods),
                               find_cpp_file(tree, class_name), description)

\* the text update_node_titles gives a text node whose class name is class_name
titles_new_text(tree, class_name) ==
  IF ~find_class_file(tree, class_name)
  THEN titles_format_node_text(class_name, <<>>, FALSE,
                               titles_get_fallback_description(class_name))
  ELSE LET name == class_name[1]
           all_methods == IF IsStruct(class_name) THEN <<>>
                          ELSE titles_extract_all_public_methods(tree, name)
           description == extract_class_description(tree, name, class_name, TRUE,
                                                    titles_get_fallback_description(class_name))
       IN titles_format_node_text(class_name, get_key_interaction_methods(all_methods),
                                  find_cpp_file(tree, class_name), description)

\* the pass without its "if not class_name: continue"
all_update_node_no_skip(tree, node) ==
  IF node.type # "text" THEN [node |-> node, counted |-> FALSE]
  ELSE [node |-> [node EXCEPT !.text = all_new_text(tree, extract_class_name(node.text, TRUE))],
        counted |-> TRUE]

\* one pass of the loop "for node in nodes" of update_all_nodes: the node as
\* the pass leaves it, and whether the pass counted it in updated_count
all_update_node(tree, node) ==
  IF node.type # "text" THEN [node |-> node, counted |-> FALSE]
  ELSE LET class_name == extract_class_name(node.text, TRUE)
       IN IF class_name = <<>> THEN [node |-> node, counted |-> FALSE]
          ELSE [node |-> [node EXCEPT !.text = all_new_text(tree, class_name)],
                counted |-> TRUE]

\* one pass of the loop "for node in nodes" of update_node_titles.main
titles_update_node(tree, node) ==
  IF node.type # "text" THEN [node |-> node, counted |-> FALSE]
  ELSE LET class_name == extract_class_name(node.text, FALSE)
       IN IF class_name = <<>> THEN [node |-> node, counted |-> FALSE]
          ELSE [node |-> [node EXCEPT !.text = titles_new_text(tree, class_name)],
                counted |-> TRUE]

\* update_all_nodes
update_all_nodes(d, tree) ==
  LET ld == LoadCanvas(d)
      pass == [i \in 1..Len(ld.mem.nodes) |-> all_update_node(tree, ld.mem.nodes[i])]
  IN IF ld.failed THEN Aborted("update_all_nodes", d, FALSE)
     ELSE Finished("update_all_nodes", d,
                   [ld.mem EXCEPT !.nodes = [i \in 1..Len(@) |-> pass[i].node]],
                   <<>>, {i \in 1..Len(pass) : pass[i].counted})

\* main of update_node_titles
update_node_titles(d, tree) ==
  LET ld == LoadCanvas(d)
      pass == [i \in 1..Len(ld.mem.nodes) |-> titles_update_node(tree, ld.mem.nodes[i])]
  IN IF ld.failed THEN Aborted("update_node_titles", d, FALSE)
     ELSE Finished("update_node_titles", d,
                   [ld.mem EXCEPT !.nodes = [i \in 1..Len(@) |-> pass[i].node]],
                   <<>>, {i \in 1..Len(pass) : pass[i].counted})

\* ---------------------------------------------------------- add_shell_nodes

ABSTRACT_WIDTH == 320
ABSTRACT_HEIGHT == 140
REGULAR_WIDTH == 280
REGULAR_HEIGHT == 100
SHELL_SPACING_Y == 150
DEFAULT_SHELL_X == 2140
DEFAULT_SHELL_Y == -4320

\* SHELL_CLASSES, in dictionary order
SHELL_CLASSES ==
  << [name |-> "Shell", description |-> <<DescShell>>, is_abstract |-> TRUE,
      methods |-> <<"setup", "update", "draw", "exit", "handleKeyPress", "handleMousePress",
                    "handleMouseDrag", "handleMouseRelease", "handleWindowResize",
                    "setActive", "isActive", "getName", "getDescription">>],
     [name |-> "EditorShell", description |-> <<DescEditorShell>>, is_abstract |-> FALSE,
      methods |-> <<"setup", "update", "draw", "exit", "handleKeyPress", "handleMousePress",
                    "handleWindowResize", "setDrawGUICallback", "setHandleKeyPressCallback">>],
     [name |-> "CommandShell", description |-> <<DescCommandShell>>, is_abstract |-> FALSE,
      methods |-> <<"setup", "update", "draw", "exit", "handleKeyPress", "handleMousePress",
                    "handleMouseDrag", "handleMouseRelease", "handleWindowResize",
                    "setEmbeddedMode", "isEmbeddedMode", "setEmbeddedBounds", "appendOutput">>],
     [name |-> "CodeShell", description |-> <<DescCodeShell>>, is_abstract |-> FALSE,
      methods |-> <<"setup", "update", "draw", "exit", "handleKeyPress", "handleMousePress",
                    "handleMouseDrag", "handleMouseRelease", "handleWindowResize",
                    "refreshScriptFromState", "executeSelection", "executeAll">>],
     [name |-> "CLIShell", description |-> <<DescCLIShell>>, is_abstract |-> FALSE,
      methods |-> <<"setup", "update", "draw", "exit", "handleKeyPress", "executeCommand",
                    "executeFromStdin", "executeFromFile", "shouldExit">>] >>

\* re.search(r'#\s*(\w+)\.', text) matches at position i
hash_name_match_at(s, i) ==
  /\ s[i] = "#"
  /\ LET j == SkipWS(s, i + 1)
     IN j + 1 <= Len(s) /\ IsWord(s[j]) /\ s[j + 1] = "."

\* existing_classes with the pattern #\s*(\w+)\.h
existing_classes_dot_h(nodes) ==
  {nodes[i].text[SkipWS(nodes[i].text, MinOf({k \in 1..Len(nodes[i].text) :
                                                 title_match_at(nodes[i].text, k)
                                                 /\ nodes[i].text[SkipWS(nodes[i].text, k + 1) + 2] = "h"}) + 1)] :
     i \in {j \in 1..Len(nodes) :
              /\ nodes[j].type = "text"
              /\ \E k \in 1..Len(nodes[j].text) :
                    /\ title_match_at(nodes[j].text, k)
                    /\ nodes[j].text[SkipWS(nodes[j].text, k + 1) + 2] = "h"}}

\* existing_classes of add_shell_nodes
existing_classes(nodes) ==
  {nodes[i].text[SkipWS(nodes[i].text, MinOf({k \in 1..Len(nodes[i].text) :
                                                 hash_name_match_at(nodes[i].text, k)}) + 1)] :
     i \in {j \in 1..Len(nodes) :
              /\ nodes[j].type = "text"
              /\ \E k \in 1..Len(nodes[j].text) : hash_name_match_at(nodes[j].text, k)}}

\* re.search(r'#\s*Shell\.', text)
is_shell_text(s) ==
  \E i \in 1..Len(s) : hash_name_match_at(s, i) /\ s[SkipWS(s, i + 1)] = "Shell"

\* find_shell_node_position, with the default of add_shell_nodes when it is None
find_shell_node_position(nodes) ==
  LET hits == {i \in 1..Len(nodes) : nodes[i].type = "text" /\ is_shell_text(nodes[i].text)}
  IN IF hits = {} THEN [x |-> DEFAULT_SHELL_X, y |-> DEFAULT_SHELL_Y]
     ELSE [x |-> nodes[MinOf(hits)].x, y |-> nodes[MinOf(hits)].y]

\* missing_shells: the indices of SHELL_CLASSES not in existing_classes, in order
missing_shells(nodes) ==
  SelectIdx([i \in 1..Len(SHELL_CLASSES) |-> i],
            {i \in 1..Len(SHELL_CLASSES) : SHELL_CLASSES[i].name \notin existing_classes(nodes)},
            1)

\* the node the loop of add_shell_nodes creates at index i of missing_shells
new_shell_node(tree, shell_pos, i, class_info, idn) ==
  LET key_methods == get_key_methods(extract_public_methods(tree, class_info.name),
                                     class_info.methods)
      node_text == shell_format_node_text(<<class_info.name>>, class_info.description,
                                          key_methods, class_info.name \in tree.cpp)
  IN Node(HexId(idn), node_text, shell_pos.x, shell_pos.y + 400 + i * SHELL_SPACING_Y,
          IF class_info.is_abstract THEN ABSTRACT_WIDTH ELSE REGULAR_WIDTH,
          IF class_info.is_abstract THEN ABSTRACT_HEIGHT ELSE REGULAR_HEIGHT,
          NoColor, EmptyStyle)

\* the indices (from 0) of missing_shells for which the loop creates a node
added_shell_slots(missing) == {i \in 0..(Len(missing) - 1) : SHELL_CLASSES[missing[i + 1]].name # "Shell"}

\* new_nodes of add_shell_nodes; ids are the uuid4 draws, one per node created
new_shell_nodes(tree, nodes, ids) ==
  LET missing == missing_shells(nodes)
      slots == SelectIdx([i \in 1..Len(missing) |-> i - 1],
                         {i \in 1..Len(missing) : (i - 1) \in added_shell_slots(missing)}, 1)
      shell_pos == find_shell_node_position(nodes)
  IN [k \in 1..Len(slots) |->
        new_shell_node(tree, shell_pos, slots[k], SHELL_CLASSES[missing[slots[k] + 1]], ids[k])]

\* add_shell_nodes
add_shell_nodes(d, tree, ids) ==
  LET ld == LoadCanvas(d)
  IN IF ld.failed THEN Aborted("add_shell_nodes", d, FALSE)
     ELSE IF ~ld.mem.hasNodes THEN Aborted("add_shell_nodes", d, TRUE)
     ELSE LET new_nodes == new_shell_nodes(tree, ld.mem.nodes, ids)
          IN Finished("add_shell_nodes", d,
                      [ld.mem EXCEPT !.nodes = extend_nodes(@, new_nodes)],
                      new_nodes, {})

\* how many nodes a run of add_shell_nodes creates
shell_nodes_to_add(nodes) == Cardinality(added_shell_slots(missing_shells(nodes)))

\* ------------------------------------------------------- the state machine

NoRun(d) ==
  [script |-> "none", failed |-> FALSE, loaded |-> FALSE, writes |-> 0, before |-> d,
   out |-> d, unsaved |-> FALSE, added |-> <<>>, updated |-> {}]

\* A canvas as the viewer may have left it: a Shell node, a class node, a node
\* with no text, a file node, an abstract class node, an edge and a metadata
\* object of its own.
EditedCanvas ==
  [ok |-> TRUE, hasNodes |-> TRUE,
   nodes |-> << Node(HexId(0), title_line(<<"Shell">>, FALSE), 100, 200, 320, 140, "2", EmptyStyle),
                Node(HexId(1), <<"ofApp">>, -900, -700, 260, 60, NoColor, EmptyStyle),
                Node(HexId(2), <<>>, 0, 0, 260, 60, NoColor, EmptyStyle),
                [Node(HexId(3), <<>>, 50, 50, 400, 400, NoColor, NoStyle) EXCEPT !.type = "file"],
                Node(HexId(4), <<"*", "ofBaseApp", "*", NL, "(", "abstract", ")">>,
                     -900, -800, 300, 200, NoColor, EmptyStyle) >>,
   edges |-> << [id |-> "e1", fromNode |-> HexId(1), fromSide |-> "top",
                 toNode |-> HexId(4), toSide |-> "bottom", color |-> "2"] >>,
   meta |-> "version 1.0-1.0, frontmatter {tags}"]

\* a canvas file with no "nodes" key, and a file that is not JSON
NoNodesCanvas == [ok |-> TRUE, hasNodes |-> FALSE, nodes |-> <<>>, edges |-> <<>>, meta |-> MetaAbsent]
BrokenCanvas == [ok |-> FALSE, hasNodes |-> FALSE, nodes |-> <<>>, edges |-> <<>>, meta |-> MetaAbsent]

\* A canvas with notes of the viewer: a file name in bold, '**Clock.h**', and a
\* layer title in bold.
NotesCanvas ==
  [ok |-> TRUE, hasNodes |-> TRUE,
   nodes |-> << Node(HexId(0), <<"*", "*", "Clock", ".", "h", "*", "*">>,
                     0, 0, 260, 60, NoColor, EmptyStyle),
                Node(HexId(1), <<"*", "*", "Application Layer", "*", "*">>,
                     0, 100, 260, 60, NoColor, EmptyStyle) >>,
   edges |-> <<>>,
   meta |-> MetaAbsent]

\* A canvas with a Shell node on which add_shell_nodes ran (with no header in
\* the tree), and from which the viewer then deleted the CommandShell node.
PartialShellCanvas ==
  LET shell == <<Node(HexId(0), title_line(<<"Shell">>, FALSE), 100, 200, 320, 140, "2",
                      EmptyStyle)>>
      added == new_shell_nodes([hdr |-> {}, cpp |-> {}, unreadable |-> {}], shell,
                               <<1, 2, 3, 4>>)
  IN [ok |-> TRUE, hasNodes |-> TRUE,
      nodes |-> shell \o <<added[1], added[3], added[4]>>,
      edges |-> <<>>,
      meta |-> DefaultMeta]

\* these, part of the edited canvas, the canvas of notes, the canvas with three
\* of the four shell nodes, and the canvases generate_uml_canvas writes, one
\* for each iteration order of its class dictionary
AnyCanvases ==
  {EditedCanvas, NoNodesCanvas, BrokenCanvas, NotesCanvas, PartialShellCanvas,
   [EditedCanvas EXCEPT !.nodes = SubSeq(@, 2, 4), !.edges = <<>>, !.meta = MetaAbsent]}
  \cup {create_canvas_json(order, <<0, 1, 2>>) : order \in Orders(ALL_CLASSES)}

\* the canvas is the one generate_uml_canvas wrote
Init ==
  /\ \E g \in GeneratedCanvases : disk = g.doc /\ repeated = g.reps
  /\ fs \in FSChoices
  /\ last = NoRun(disk)
  /\ runs = 0
  /\ call = NoCall

\* the canvas is any canvas file; the uuid4 draws of the runs on it are all
\* values not drawn before
InitAny ==
  /\ disk \in AnyCanvases
  /\ fs \in FSChoices
  /\ last = NoRun(disk)
  /\ repeated = MaxRepeated
  /\ runs = 0
  /\ call = NoCall

Ran(r, reps) ==
  /\ runs' = runs + 1
  /\ disk' = r.out
  /\ last' = r
  /\ repeated' = repeated + reps
  /\ UNCHANGED <<fs, call>>

UpdateExistingCanvas ==
  /\ runs < MaxRuns
  /\ \E order \in Orders(missing_classes(disk)) :
       \E draw \in IdSeqs(UsedIds(disk.nodes, "hex16"), Len(order), MaxRepeated - repeated) :
         Ran(update_existing_canvas(disk, order, draw.ids), draw.reps)

AddShellNodes ==
  /\ runs < MaxRuns
  /\ \E draw \in IdSeqs(UsedIds(disk.nodes, "hex16"), shell_nodes_to_add(disk.nodes),
                        MaxRepeated - repeated) :
       Ran(add_shell_nodes(disk, fs, draw.ids), draw.reps)

UpdateAllNodes == runs < MaxRuns /\ Ran(update_all_nodes(disk, fs), 0)

UpdateNodeTitles == runs < MaxRuns /\ Ran(update_node_titles(disk, fs), 0)

Next ==
  \/ UpdateExistingCanvas
  \/ AddShellNodes
  \/ UpdateAllNodes
  \/ UpdateNodeTitles

Spec == Init /\ [][Next]_vars

SpecAny == InitAny /\ [][Next]_vars

\* ------------------------------------- the line scanners, called on their own

\* the longest header the scanners are called on
MaxLines == 4

\* the lines of those headers: a class-start line 'class A {', a class that
\* opens and closes in one line 'class B {};', 'public:', 'private:', a
\* declaration 'void f();', an inline definition that opens a brace
\* 'void g() {', and a line with a closing brace
ScanLines ==
  { Line("class", "A", 1, 0, {"bare"}),
    Line("class", "B", 1, 1, {"bare"}),
    Line("public", "", 0, 0, {}),
    Line("private", "", 0, 0, {}),
    Line("decl", "f", 0, 0, {"typed"}),
    Line("decl", "g", 1, 0, {"typed"}),
    Line("other", "", 0, 1, {}) }

ScanInputs == UNION {[1..n -> ScanLines] : n \in 0..MaxLines}

\* the scanner state before line k of the call, and the line the loop is at
ScanState(k) == IF k = 1 THEN ScanStart ELSE call.trace[k - 1]

\* extract_public_methods (filtered FALSE) or update_node_titles'
\* extract_all_public_methods (filtered TRUE) is called on a header
InitScan ==
  /\ disk = BrokenCanvas
  /\ fs = [hdr |-> {}, cpp |-> {}, unreadable |-> {}]
  /\ last = NoRun(disk)
  /\ repeated = 0
  /\ runs = 0
  /\ \E lines \in ScanInputs, filtered \in BOOLEAN :
       call = [fn |-> "scan", lines |-> lines, filtered |-> filtered, trace |-> <<>>]

\* one iteration of 'for line in lines'; trace keeps the state after each line
ScanLine ==
  /\ call.fn = "scan"
  /\ Len(call.trace) < Len(call.lines)
  /\ call' = [call EXCEPT !.trace =
                Append(@, scan_line(call.lines, Len(call.trace) + 1,
                                    ScanState(Len(call.trace) + 1), call.filtered))]
  /\ UNCHANGED <<disk, fs, last, repeated, runs>>

SpecScan == InitScan /\ [][ScanLine]_vars

\* --------------------------------- format_node_text and the title patterns

\* the longest method list format_node_text is called on
MaxMethods == 2

\* the arguments of the calls: class names of word characters, among them the
\* words of the extensions; method names; and descriptions, among them ones
\* that hold a starred word and a title of their own
TitleNames == {"Clock", "h", "cpp"}
TitleMethods == UNION {[1..n -> {"f", "h"}] : n \in 0..MaxMethods}
TitleDescriptions ==
  { <<>>,
    <<DescClock>>,
    <<"*", "x", "*">>,
    <<"#", " ", "x", ".", "h">>,
    <<"see", " ", "#", "x", ".", "cpp", "/", "h", " ", "*", "y", "*">> }

\* format_node_text of update_all_nodes or update_node_titles is called
InitTitle ==
  /\ disk = BrokenCanvas
  /\ fs = [hdr |-> {}, cpp |-> {}, unreadable |-> {}]
  /\ last = NoRun(disk)
  /\ repeated = 0
  /\ runs = 0
  /\ \E script \in {"update_all_nodes", "update_node_titles"}, class_name \in TitleNames,
        has_cpp \in BOOLEAN, methods \in TitleMethods, description \in TitleDescriptions :
       call = [fn |-> "title", step |-> "args", script |-> script,
               class_name |-> <<class_name>>, has_cpp |-> has_cpp, methods |-> methods,
               description |-> description, text |-> <<>>, name |-> <<>>]

\* node["text"] = format_node_text(class_name, key_methods, has_cpp, description)
FormatNodeText ==
  /\ call.fn = "title"
  /\ call.step = "args"
  /\ call' = [call EXCEPT
                !.step = "text",
                !.text = IF call.script = "update_all_nodes"
                         THEN all_format_node_text(call.class_name, call.methods,
                                                   call.has_cpp, call.description)
                         ELSE titles_format_node_text(call.class_name, call.methods,
                                                      call.has_cpp, call.description)]
  /\ UNCHANGED <<disk, fs, last, repeated, runs>>

\* the next run of the script reads the class name from the text
ExtractClassName ==
  /\ call.fn = "title"
  /\ call.step = "text"
  /\ call' = [call EXCEPT
                !.step = "name",
                !.name = extract_class_name(call.text, call.script = "update_all_nodes")]
  /\ UNCHANGED <<disk, fs, last, repeated, runs>>

NextTitle ==
  \/ FormatNodeText
  \/ ExtractClassName

SpecTitle == InitTitle /\ [][NextTitle]_vars

\* ----------------------------------------------------------------- claims

\* the run that led to the current state ended with its write
RanOk(script) == last.script = script /\ ~last.failed

\* text is one of the forms in which a node represents class c: bare 'c',
\* abstract '*c*\n(abstract)', or titled '# c.h' / '# c.cpp/h'
Titled(text, c) ==
  \/ StartsWith(text, title_line(<<c>>, FALSE))
  \/ StartsWith(text, title_line(<<c>>, TRUE))

Represents(text, c) ==
  \/ text = <<c>>
  \/ text = <<"*", c, "*", NL, "(", "abstract", ")">>
  \/ Titled(text, c)

ClassNodes(nodes, c) ==
  {i \in 1..Len(nodes) : nodes[i].type = "text" /\ Represents(nodes[i].text, c)}

\* C1: starting from the document of generate_uml_canvas, after any sequence of
\* runs of the four update scripts no class of ALL_CLASSES is represented by
\* more than one text node.
C1_CreatedOnce ==
  \A c \in ALL_CLASSES : Cardinality(ClassNodes(disk.nodes, c)) <= 1

\* the run that led to the current state was of an update script and ended
\* with its write
RanToEnd == last.script # "none" /\ ~last.failed

\* two nodes that differ in their text at most
SameButText(a, b) == [a EXCEPT !.text = <<>>] = [b EXCEPT !.text = <<>>]

\* C2: the document a script writes holds the loaded nodes, in their order,
\* followed by the nodes the run created: the count after is the count before
\* plus the number added, and update_all_nodes / update_node_titles add none.
C2_LoadedThenAdded ==
  RanToEnd =>
    LET before == last.before.nodes
    IN /\ Len(disk.nodes) = Len(before) + Len(last.added)
       /\ \A i \in 1..Len(before) : SameButText(disk.nodes[i], before[i])
       /\ SubSeq(disk.nodes, Len(before) + 1, Len(disk.nodes)) = last.added
       /\ last.script \in {"update_all_nodes", "update_node_titles"}
            => Len(disk.nodes) = Len(before)

\* a run added nodes to a document that had nodes
C2_Witness ==
  /\ RanOk("add_shell_nodes")
  /\ last.before.nodes # <<>>
  /\ last.added # <<>>

\* C3: all node ids of the document are pairwise distinct.
C3_UniqueIds ==
  \A i, j \in 1..Len(disk.nodes) : i # j => disk.nodes[i].id # disk.nodes[j].id

\* C4: for every update script, every edge of the loaded document is,
\* unchanged, in the document the script writes.
C4_NoEdgeDeleted ==
  RanToEnd => \A e \in Range(last.before.edges) : e \in Range(disk.edges)

\* the header of class_name is missing, or read_text raises on it
HeaderUnavailable(class_name) ==
  ~(Len(class_name) = 1 /\ Readable(fs, class_name[1]))

\* the class name the script of the last run read from a node text, and the
\* entry of that script's fallback table
NameRead(text) == extract_class_name(text, last.script = "update_all_nodes")

TableEntry(class_name) ==
  IF last.script = "update_all_nodes" THEN all_get_fallback_description(class_name)
  ELSE titles_get_fallback_description(class_name)

\* the nodes of the loaded document the last run gave a text to although the
\* header of their class was not available
FallbackNodes ==
  {i \in 1..Len(last.before.nodes) :
     /\ last.before.nodes[i].type = "text"
     /\ NameRead(last.before.nodes[i].text) # <<>>
     /\ HeaderUnavailable(NameRead(last.before.nodes[i].text))}

\* text is lines and, after them, white space only
EndsAfter(text, lines) ==
  /\ StartsWith(text, JoinLines(lines))
  /\ \A k \in (Len(JoinLines(lines)) + 1)..Len(text) : text[k] \in WS

NoMethodLines(text) == \A k \in 1..Len(text) : text[k] \notin {METHOD_OPEN, METHOD_CLOSE}

\* every method extractor returns the empty list for a header that is missing
\* or unreadable
ExtractorsEmpty ==
  \A name \in {"Clock", "ofApp", "ofBaseApp", "EditorShell", "Shell"} :
    ~Readable(fs, name) =>
      /\ extract_public_methods(fs, name) = <<>>
      /\ titles_extract_all_public_methods(fs, name) = <<>>
      /\ all_extract_all_public_methods(fs, name) = <<>>

\* C5 as stated: when the header of C is missing or unreadable the extractors
\* return the empty list and update_all_nodes / update_node_titles set the text
\* to the title '# C.h' followed by the fallback description of C, with no
\* method lines.
C5_TitleAndFallback ==
  /\ ExtractorsEmpty
  /\ (RanOk("update_all_nodes") \/ RanOk("update_node_titles")) =>
       \A i \in FallbackNodes :
         LET C == NameRead(last.before.nodes[i].text)
             text == disk.nodes[i].text
         IN /\ EndsAfter(text, <<title_line(C, FALSE), <<>>>>
                                 \o (IF TableEntry(C) = <<>> THEN <<>>
                                     ELSE <<description_line(TableEntry(C))>>))
            /\ NoMethodLines(text)

\* C5: when the header of C is missing or unreadable the extractors return the
\* empty list and update_all_nodes / update_node_titles set the text to a title,
\* '# C.cpp/h' when the header exists but cannot be read and C.cpp exists and
\* '# C.h' otherwise, followed by the description of C in the script's own
\* fallback table when it has one; when it has none update_all_nodes writes the
\* title alone and update_node_titles the notes '*(Class definition found)*' and
\* '*(No public methods found)*'.  The text has no method lines.
C5_TitleAndTableEntry ==
  /\ ExtractorsEmpty
  /\ (RanOk("update_all_nodes") \/ RanOk("update_node_titles")) =>
       \A i \in FallbackNodes :
         LET C == NameRead(last.before.nodes[i].text)
             text == disk.nodes[i].text
             title == title_line(C, find_class_file(fs, C) /\ find_cpp_file(fs, C))
         IN /\ EndsAfter(text,
                 IF TableEntry(C) # <<>>
                 THEN <<title, <<>>, description_line(TableEntry(C))>>
                 ELSE IF last.script = "update_all_nodes" THEN <<title>>
                 ELSE <<title, <<>>, CLASS_FOUND_NOTE, <<>>, NO_METHODS_NOTE>>)
            /\ NoMethodLines(text)

\* update_all_nodes gave a text to the node of a class whose header exists but
\* cannot be read
C5_Witness ==
  /\ RanOk("update_all_nodes")
  /\ \E i \in FallbackNodes : find_class_file(fs, NameRead(last.before.nodes[i].text))

\* C6: in update_all_nodes and update_node_titles a text node from which no
\* class name can be extracted, and a node whose type is not 'text', is in the
\* written document with every field as loaded, and is not counted in
\* updated_count.
C6_SkippedUnchanged ==
  (RanOk("update_all_nodes") \/ RanOk("update_node_titles")) =>
    \A i \in 1..Len(last.before.nodes) :
      LET node == last.before.nodes[i]
      IN (node.type # "text" \/ NameRead(node.text) = <<>>) =>
           /\ disk.nodes[i] = node
           /\ i \notin last.updated

\* update_all_nodes ran on a document with a text node that yields no class
\* name and a node that is not a text node, and updated another node
C6_Witness ==
  /\ RanOk("update_all_nodes")
  /\ \E i \in 1..Len(last.before.nodes) :
       last.before.nodes[i].type = "text" /\ NameRead(last.before.nodes[i].text) = <<>>
  /\ \E i \in 1..Len(last.before.nodes) : last.before.nodes[i].type # "text"
  /\ last.updated # {}

ShellNames == {"EditorShell", "CommandShell", "CodeShell", "CLIShell"}

HasTitled(nodes, name) ==
  \E i \in 1..Len(nodes) : nodes[i].type = "text" /\ Titled(nodes[i].text, name)

C9_InheritanceEdges ==
  RanOk("update_existing_canvas") =>
    \A child \in DOMAIN INHERITANCE :
      (ClassNodes(disk.nodes, child) # {} /\ ClassNodes(disk.nodes, INHERITANCE[child]) # {}) =>
        \E k \in 1..Len(disk.edges) :
          /\ \E i \in ClassNodes(disk.nodes, child) : disk.edges[k].fromNode = disk.nodes[i].id
          /\ disk.edges[k].fromSide = "top"
          /\ \E j \in ClassNodes(disk.nodes, INHERITANCE[child]) :
               disk.edges[k].toNode = disk.nodes[j].id
          /\ disk.edges[k].toSide = "bottom"

\* C10: every node of the document update_existing_canvas loaded is in the
\* document it writes with all its fields unchanged; a metadata object that was
\* there is unchanged, and the default one is there when there was none.
C10_FormatPreserved ==
  RanOk("update_existing_canvas") =>
    /\ \A i \in 1..Len(last.before.nodes) : disk.nodes[i] = last.before.nodes[i]
    /\ disk.meta = IF last.before.meta = MetaAbsent THEN DefaultMeta ELSE last.before.meta

\* update_existing_canvas ran on a document with nodes and a metadata object of
\* its own, and added a node
C10_Witness ==
  /\ RanOk("update_existing_canvas")
  /\ last.before.nodes # <<>>
  /\ last.before.meta \notin {MetaAbsent, DefaultMeta}
  /\ last.added # <<>>

\* ------------------------------------------------------------ C11 .. C20

\* the text nodes of the loaded document whose text gives a class name to the
\* script of the last run
NamedNodes ==
  {i \in 1..Len(last.before.nodes) :
     /\ last.before.nodes[i].type = "text"
     /\ NameRead(last.before.nodes[i].text) # <<>>}

NoKeyMethodsLine(text) == \A k \in 1..Len(text) : text[k] # "Key Methods:"

\* C11 as stated: after update_all_nodes the first line of every text node that
\* gave a class name C is '# C.cpp/h' exactly when a .cpp file of C is found and
\* '# C.h' otherwise, and the text has no '**Key Methods:**' line.
C11_TitleByCppFile ==
  RanOk("update_all_nodes") =>
    \A i \in NamedNodes :
      LET C == NameRead(last.before.nodes[i].text)
      IN /\ FirstLine(disk.nodes[i].text) = title_line(C, find_cpp_file(fs, C))
         /\ NoKeyMethodsLine(disk.nodes[i].text)

\* C11: after update_all_nodes the first line of every text node that gave a
\* class name C is '# C.cpp/h' exactly when both a header file and a .cpp file
\* of C are found and '# C.h' otherwise, and the text has no '**Key Methods:**'
\* line.
C11_TitleByHeaderAndCpp ==
  RanOk("update_all_nodes") =>
    \A i \in NamedNodes :
      LET C == NameRead(last.before.nodes[i].text)
      IN /\ FirstLine(disk.nodes[i].text)
              = title_line(C, find_class_file(fs, C) /\ find_cpp_file(fs, C))
         /\ NoKeyMethodsLine(disk.nodes[i].text)

\* update_all_nodes rewrote a node whose class has a header and a .cpp file,
\* and a node whose class has a .cpp file and no header
C11_Witness ==
  /\ RanOk("update_all_nodes")
  /\ \E i \in NamedNodes :
       LET C == NameRead(last.before.nodes[i].text)
       IN find_class_file(fs, C) /\ find_cpp_file(fs, C)
  /\ \E i \in NamedNodes :
       LET C == NameRead(last.before.nodes[i].text)
       IN ~find_class_file(fs, C) /\ find_cpp_file(fs, C)

\* C13: a run of update_existing_canvas that directly follows a run of
\* update_existing_canvas finds no missing class and adds no node.
C13_SecondRunAddsNone ==
  [][(RanOk("update_existing_canvas")
        /\ last'.script = "update_existing_canvas" /\ ~last'.failed) =>
       /\ missing_classes(disk) = {}
       /\ last'.added = <<>>]_vars

\* C14: with the header/source tree unchanged, a run of update_all_nodes that
\* directly follows a run of update_all_nodes writes the document it loaded:
\* two runs write what one run writes.
C14_UpdateAllIdempotent ==
  [][(RanOk("update_all_nodes") /\ last'.script = "update_all_nodes" /\ ~last'.failed) =>
       disk' = disk]_vars

\* C15: a run of update_node_titles that directly follows a run of
\* update_node_titles, on an unchanged tree, writes the document it loaded; in
\* particular no title line changes.
C15_UpdateTitlesIdempotent ==
  [][(RanOk("update_node_titles") /\ last'.script = "update_node_titles" /\ ~last'.failed) =>
       disk' = disk]_vars

\* the class a node created by update_existing_canvas stands for, and its layer
AddedLayer(node) ==
  CLASS_TO_LAYER(<<CHOOSE c \in ALL_CLASSES : Represents(node.text, c)>>)

\* C16: in one run of update_existing_canvas no two nodes created for the same
\* layer, other than the single-slot layers module_base and gui_base, are given
\* the same (x, y).
C16_NoOverlapInLayer ==
  RanOk("update_existing_canvas") =>
    \A i, j \in 1..Len(last.added) :
      (/\ i < j
       /\ AddedLayer(last.added[i]) = AddedLayer(last.added[j])
       /\ AddedLayer(last.added[i]) \notin {"module_base", "gui_base"}) =>
        <<last.added[i].x, last.added[i].y>> # <<last.added[j].x, last.added[j].y>>

\* C17: the k-th node a run of add_shell_nodes adds (k = 0, 1, ...) is at the x
\* of the Shell node and at y = Shell y + 400 + k * 150, with the default Shell
\* position when the loaded document has no Shell node.
C17_StackedBelowShell ==
  RanOk("add_shell_nodes") =>
    LET shell_pos == find_shell_node_position(last.before.nodes)
    IN \A k \in 1..Len(last.added) :
         /\ last.added[k].x = shell_pos.x
         /\ last.added[k].y = shell_pos.y + 400 + (k - 1) * SHELL_SPACING_Y

\* the nodes of EditorShell, CommandShell, CodeShell and CLIShell in a node list
ShellNodes(nodes) ==
  {i \in 1..Len(nodes) :
     nodes[i].type = "text" /\ \E name \in ShellNames : Titled(nodes[i].text, name)}

\* every shell node of the list is in a slot add_shell_nodes gives below the
\* Shell node
InShellSlots(nodes) ==
  LET shell_pos == find_shell_node_position(nodes)
  IN \A i \in ShellNodes(nodes) :
       /\ nodes[i].x = shell_pos.x
       /\ \E k \in 0..Len(SHELL_CLASSES) :
            nodes[i].y = shell_pos.y + 400 + k * SHELL_SPACING_Y

\* C18: when add_shell_nodes runs on a document whose shell nodes are where an
\* earlier run of add_shell_nodes put them, no node it adds is at the (x, y) of
\* a shell node of the loaded document.
C18_NoOverlapAcrossRuns ==
  (RanOk("add_shell_nodes") /\ InShellSlots(last.before.nodes)) =>
    \A k \in 1..Len(last.added) : \A i \in ShellNodes(last.before.nodes) :
      <<last.added[k].x, last.added[k].y>>
        # <<last.before.nodes[i].x, last.before.nodes[i].y>>

\* line k of the call is a class-start line: it matches \bclass\s+\w+ and
\* holds a '{'
ClassStartAt(k) == call.lines[k].kind = "class" /\ call.lines[k].open > 0

\* the last class-start line before line k, 0 when there is none
LastClassStart(k) ==
  LET starts == {c \in 1..(k - 1) : ClassStartAt(c)}
  IN IF starts = {} THEN 0 ELSE CHOOSE c \in starts : \A d \in starts : d <= c

\* the scanner appended a name while processing line k
AppendedAt(k) == call.trace[k].methods # ScanState(k).methods

\* C19: the line scanners append a name only while processing a line at which
\* in_class is true and the brace depth is above 0, after a 'public:' line and
\* before the next 'private:' line of the class started last; every
\* class-start line leaves the section non-public; and the brace depth has not
\* been 0 since that class-start line.
C19_AppendsInPublicClassBody ==
  call.fn = "scan" =>
    \A k \in 1..Len(call.trace) :
      /\ ClassStartAt(k) => ~call.trace[k].in_public_section
      /\ AppendedAt(k) =>
           LET c == LastClassStart(k)
           IN /\ call.trace[k].in_class
              /\ call.trace[k].brace_depth > 0
              /\ c > 0
              /\ \E p \in (c + 1)..(k - 1) :
                   /\ call.lines[p].kind = "public"
                   /\ \A q \in (p + 1)..(k - 1) : call.lines[q].kind # "private"
              /\ \A j \in c..(k - 1) : call.trace[j].brace_depth > 0

\* C20: for every class name of word characters, has_cpp flag, method list and
\* description, the class name the update scripts read from the text that
\* format_node_text produced is that class name.
C20_TitleRoundTrip ==
  (call.fn = "title" /\ call.step = "name") => call.name = call.class_name

\* a class name was read from a text whose description holds a starred word
\* and a title of its own, and that has method lines
C20_Witness ==
  /\ call.fn = "title"
  /\ call.step = "name"
  /\ call.methods # <<>>
  /\ \E i \in 1..Len(call.description) : starred_match_at(call.description, i)
  /\ \E i \in 1..Len(call.description) : title_match_at(call.description, i)
  /\ call.name = call.class_name

\* ------------------------------------------------------------ C21 .. C22

\* the nodes update_existing_canvas creates for the loaded document of the last
\* run when it visits the set missing_classes in the given order
AddedInOrder(order) ==
  add_missing_nodes(order, [k \in 1..Len(order) |-> k],
                    get_existing_nodes(LoadCanvas(last.before).mem))

\* C21: the (x, y) update_existing_canvas gives to a missing class does not
\* depend on the order in which the set missing_classes is iterated: every
\* order gives each class the position the run gave it.
C21_LayoutOrderIndependent ==
  RanOk("update_existing_canvas") =>
    \A order \in Orders(missing_classes(last.before)) :
      \A i \in 1..Len(last.added) : \A j \in 1..Len(order) :
        (\E c \in ALL_CLASSES : /\ Represents(last.added[i].text, c)
                                /\ Represents(AddedInOrder(order)[j].text, c)) =>
          <<last.added[i].x, last.added[i].y>>
            = <<AddedInOrder(order)[j].x, AddedInOrder(order)[j].y>>

\* the class nodes and layer headers of a document generate_uml_canvas wrote
GeneratedClassNodes == {i \in 1..Len(disk.nodes) : disk.nodes[i].id.kind = "class"}

GeneratedNodes ==
  {i \in 1..Len(disk.nodes) : disk.nodes[i].id.kind \in {"class", "header"}}

\* the class a generated node shows
ShownClass(node) == CHOOSE c \in ALL_CLASSES : get_display_text(c) = node.text

\* how many classes of the layer of c stand before c when abstract classes come
\* first and names are in alphabetical order after that
SortedIndex(c) ==
  Cardinality({d \in ALL_CLASSES :
                 /\ find_layer(d) = find_layer(c)
                 /\ \/ IsAbstract(d) /\ ~IsAbstract(c)
                    \/ IsAbstract(d) = IsAbstract(c) /\ NameRank(d) < NameRank(c)})

====
